---- MODULE Spec2Model ----
(***************************************************************************)
(* Model of backend/app/services/ai_generator.py: the event-content        *)
(* generation pipeline AIGeneratorService.generate_event_content (text     *)
(* step, description post-processing, image download with model fallback,  *)
(* file store) and the pure post-processor _clean_description.             *)
(*                                                                         *)
(* Python strings are modelled as sequences of one-character strings.      *)
(***************************************************************************)
EXTENDS Integers, Sequences, FiniteSets, TLC

(***************************************************************************)
(* Bounds of the model                                                     *)
(***************************************************************************)
MaxTextLen == 4      \* longest text given to _clean_description
MaxSeed == 2         \* seeds are drawn from 1..MaxSeed (code: 1..1000000)
MaxUuid == 2         \* uuid4() values are drawn from 1..MaxUuid
MaxBytes == 2        \* response bodies are drawn from 1..MaxBytes

(***************************************************************************)
(* Program constants                                                       *)
(***************************************************************************)
PromptLimit == 200   \* result["image_prompt"][:200]
Width == 1280
Height == 720
StatusOK == 200

\* the invocations of generate_event_content in flight on one event loop
Procs == {1, 2}

(***************************************************************************)
(* _clean_description (lines 142-146)                                      *)
(*   text = re.sub(r'^#+\s.*$', '', text, flags=re.MULTILINE)              *)
(*   return text.strip()                                                   *)
(***************************************************************************)
Alphabet == {"#", " ", "\n", "a"}

\* \s of the regular expression and the characters str.strip() removes,
\* restricted to the alphabet of the model
Whitespace == {" ", "\n"}

Min(a, b) == IF a < b THEN a ELSE b

\* '^' under re.MULTILINE: start of the string or just after a newline
LineStart(t, i) == i = 1 \/ t[i - 1] = "\n"

\* '#+' (greedy): first index at or after i that does not hold '#'
RECURSIVE HashEnd(_, _)
HashEnd(t, i) ==
    IF i <= Len(t) /\ t[i] = "#" THEN HashEnd(t, i + 1) ELSE i

\* '.*$' : '.' does not match a newline; '$' matches at the end of the
\* string or just before a newline
RECURSIVE LineEnd(_, _)
LineEnd(t, i) ==
    IF i <= Len(t) /\ t[i] # "\n" THEN LineEnd(t, i + 1) ELSE i

\* the pattern matches at position i
MatchesAt(t, i) ==
    /\ i <= Len(t)
    /\ LineStart(t, i)
    /\ t[i] = "#"
    /\ HashEnd(t, i) <= Len(t)
    /\ t[HashEnd(t, i)] \in Whitespace

\* first index after the match that starts at i ('\s' may be a newline, and
\* then '.*' runs to the end of the following line)
MatchEnd(t, i) == LineEnd(t, HashEnd(t, i) + 1)

\* re.sub(pattern, '', text): non-overlapping matches, left to right
RECURSIVE SubHeaders(_, _)
SubHeaders(t, i) ==
    IF i > Len(t) THEN <<>>
    ELSE IF MatchesAt(t, i) THEN SubHeaders(t, MatchEnd(t, i))
    ELSE <<t[i]>> \o SubHeaders(t, i + 1)

RECURSIVE LStrip(_)
LStrip(t) ==
    IF t # <<>> /\ Head(t) \in Whitespace THEN LStrip(Tail(t)) ELSE t

RECURSIVE RStrip(_)
RStrip(t) ==
    IF t # <<>> /\ t[Len(t)] \in Whitespace
    THEN RStrip(SubSeq(t, 1, Len(t) - 1)) ELSE t

\* str.strip()
Strip(t) == RStrip(LStrip(t))

_clean_description(text) == Strip(SubHeaders(text, 1))

\* all texts of length at most n over the alphabet
RECURSIVE TextsUpTo(_)
TextsUpTo(n) ==
    IF n = 0 THEN {<<>>}
    ELSE LET shorter == TextsUpTo(n - 1)
         IN  shorter \cup {Append(t, c) : t \in shorter, c \in Alphabet}

Texts == TextsUpTo(MaxTextLen)

\* the lines of a text, split at newlines
RECURSIVE Lines(_)
Lines(t) ==
    LET e == LineEnd(t, 1)
    IN  IF e > Len(t) THEN <<t>>
        ELSE <<SubSeq(t, 1, e - 1)>> \o Lines(SubSeq(t, e + 1, Len(t)))

\* a line that begins with one or more '#' followed by whitespace
IsHeaderLine(l) ==
    /\ l # <<>>
    /\ l[1] = "#"
    /\ HashEnd(l, 1) <= Len(l)
    /\ l[HashEnd(l, 1)] \in Whitespace

VARIABLES
    cleanPc,     \* "idle", "in", "once", "twice"
    cleanIn,     \* the text _clean_description was called on
    cleanOnce,   \* _clean_description(cleanIn)
    cleanTwice   \* _clean_description(cleanOnce)

cleanVars == <<cleanPc, cleanIn, cleanOnce, cleanTwice>>

CleanIdle ==
    /\ cleanPc = "idle"
    /\ cleanIn = <<>>
    /\ cleanOnce = <<>>
    /\ cleanTwice = <<>>

CleanStart ==
    /\ cleanPc = "in"
    /\ cleanIn \in Texts
    /\ cleanOnce = <<>>
    /\ cleanTwice = <<>>

\* first application
CleanCall ==
    /\ cleanPc = "in"
    /\ cleanOnce' = _clean_description(cleanIn)
    /\ cleanPc' = "once"
    /\ UNCHANGED <<cleanIn, cleanTwice>>

\* second application, on the output of the first
CleanAgain ==
    /\ cleanPc = "once"
    /\ cleanTwice' = _clean_description(cleanOnce)
    /\ cleanPc' = "twice"
    /\ UNCHANGED <<cleanIn, cleanOnce>>

(***************************************************************************)
(* JSON values returned by the parser (line 38, lines 63-64).              *)
(* JsonOutputParser(pydantic_object=EventContent) uses the schema for the  *)
(* format instructions of the prompt; what chain.ainvoke returns is the    *)
(* parsed JSON, used as a dict at lines 67-136.                            *)
(* A value is a record [k, s]: k is the JSON type, s the content.          *)
(***************************************************************************)
JAbsent == [k |-> "absent", s |-> <<>>]      \* key not in the dict
JNull == [k |-> "null", s |-> <<>>]          \* JSON null (Python None)
JStr(s) == [k |-> "str", s |-> s]
JList(items) == [k |-> "list", s |-> items]

\* class AgendaItem (lines 12-15)
AgendaItem(time, title, speaker) ==
    [time |-> time, title |-> title, speaker |-> speaker]

AgendaItemConforms(it) ==
    /\ it.time.k = "str"
    /\ it.title.k = "str"
    /\ it.speaker.k = "str"

\* class EventContent (lines 17-21): every field present with its type
EventContentConforms(d) ==
    /\ d.top = "dict"
    /\ d.description.k = "str"
    /\ d.agenda.k = "list"
    /\ \A i \in 1..Len(d.agenda.s) : AgendaItemConforms(d.agenda.s[i])
    /\ d.tags.k = "list"
    /\ \A i \in 1..Len(d.tags.s) : d.tags.s[i].k = "str"
    /\ d.image_prompt.k = "str"

Dict(description, agenda, tags, image_prompt, imageUrl) ==
    [top |-> "dict", description |-> description, agenda |-> agenda,
     tags |-> tags, image_prompt |-> image_prompt, imageUrl |-> imageUrl]

\* a JSON document that is not an object (here: a list)
NotADict ==
    [top |-> "list", description |-> JAbsent, agenda |-> JAbsent,
     tags |-> JAbsent, image_prompt |-> JAbsent, imageUrl |-> JAbsent]

\* no value: the variable has not been assigned
NoValue ==
    [top |-> "none", description |-> JAbsent, agenda |-> JAbsent,
     tags |-> JAbsent, image_prompt |-> JAbsent, imageUrl |-> JAbsent]

\* "\uD800" stands for a lone surrogate code point, which json.loads
\* accepts in a string and which cannot be encoded as UTF-8
Surrogate == "\\uD800"

FullItem == AgendaItem(JStr(<<"9">>), JStr(<<"t">>), JStr(<<"s">>))
NoSpeakerItem == AgendaItem(JStr(<<"9">>), JStr(<<"t">>), JAbsent)
OneTag == JList(<<JStr(<<"x">>)>>)

\* what the text backend's output may parse to
TextOutputs == {
    \* schema-conformant, description with a header line
    Dict(JStr(<<"#", " ", "a", "\n", "a">>), JList(<<FullItem>>), OneTag,
         JStr(<<"a", " ", "b">>), JAbsent),
    \* schema-conformant, image prompt holding a lone surrogate
    Dict(JStr(<<" ", "#", " ", "a">>), JList(<<>>), OneTag,
         JStr(<<"a", Surrogate>>), JAbsent),
    \* image_prompt missing, and an extra imageUrl key that is not a string
    Dict(JStr(<<"a">>), JList(<<FullItem>>), OneTag, JAbsent, JNull),
    \* description and image_prompt missing, agenda item without speaker,
    \* tags not a list
    Dict(JAbsent, JList(<<NoSpeakerItem>>), JStr(<<"x">>), JAbsent, JAbsent),
    \* description of the wrong type
    Dict(JNull, JList(<<>>), OneTag, JStr(<<"a">>), JAbsent),
    \* description of the wrong type and image_prompt missing
    Dict(JNull, JList(<<>>), OneTag, JAbsent, JAbsent),
    \* image_prompt of the wrong type
    Dict(JStr(<<"a">>), JList(<<>>), OneTag, JNull, JAbsent),
    \* not a JSON object
    NotADict }

\* errors chain.ainvoke raises: the model call fails, or the parser finds
\* no JSON in the output (OutputParserException)
TextErrors == {"TransportError", "OutputParserException"}

(***************************************************************************)
(* Prompt encoding and the request URL (lines 77-88)                       *)
(***************************************************************************)
Suffix == <<",", " ", "c", "i", "n", "e", "m", "a", "t", "i", "c", " ",
            "l", "i", "g", "h", "t", "i", "n", "g">>

\* result["image_prompt"][:200] + ", cinematic lighting"
EnhancedPrompt(image_prompt) ==
    SubSeq(image_prompt, 1, Min(Len(image_prompt), PromptLimit)) \o Suffix

\* characters urllib.parse.quote leaves alone (letters, digits, "_.-~/")
Unreserved == {"a", "b", "c", "e", "g", "h", "i", "l", "m", "n", "t"}

PercentCode(c) ==
    CASE c = " " -> <<"%", "2", "0">>
      [] c = "," -> <<"%", "2", "C">>
      [] c = "=" -> <<"%", "3", "D">>

\* quote() encodes the string as UTF-8 first: a lone surrogate raises
\* UnicodeEncodeError
QuoteRaises(s) == \E i \in 1..Len(s) : s[i] = Surrogate

RECURSIVE Quote(_)
Quote(s) ==
    IF s = <<>> THEN <<>>
    ELSE (IF Head(s) \in Unreserved THEN <<Head(s)>>
          ELSE PercentCode(Head(s))) \o Quote(Tail(s))

\* POLLINATIONS_API_KEY: "" when the variable is not set
ApiKeys == {"", "k"}

\* variant: the URL carries a fixed seed in place of the one drawn
PollinationsUrl_FixedSeed(encoded_prompt, seed, key) ==
    [prompt |-> encoded_prompt, width |-> Width, height |-> Height,
     model |-> "flux", nologo |-> TRUE, seed |-> 1, api_key |-> key]

\* the URL of line 88, one field per part that varies
PollinationsUrl(encoded_prompt, seed, key) ==
    [prompt |-> encoded_prompt, width |-> Width, height |-> Height,
     model |-> "flux", nologo |-> TRUE, seed |-> seed, api_key |-> key]

\* "model=flux" in pollinations_url (line 114)
HasFluxModel(url) == url.model = "flux"

\* variant: the retry goes to the URL of the primary request
RetryUrl_Same(url) == url

\* pollinations_url.replace("model=flux", "model=turbo") (line 116)
RetryUrl(url) == [url EXCEPT !.model = "turbo"]

(***************************************************************************)
(* Responses of the image backend and the success test (lines 99, 118)     *)
(***************************************************************************)
ImagePng == <<"i", "m", "a", "g", "e", "/", "p", "n", "g">>
TextHtml == <<"t", "e", "x", "t", "/", "h", "t", "m", "l">>

\* img_response.headers.get("Content-Type", ""): <<>> when the answer has
\* no Content-Type header
ContentTypes == {ImagePng, TextHtml, <<>>}
Statuses == {StatusOK, 500}

\* body 0 is the backend's error page; an answer declared as an image
\* carries one of the bodies 1..MaxBytes
ErrorPage == 0

Responses ==
    {r \in [status : Statuses, ctype : ContentTypes,
            content : {ErrorPage} \cup 1..MaxBytes] :
        (r.ctype = ImagePng) <=> (r.content # ErrorPage)}

\* needle in hay (Python's substring test on strings)
Contains(needle, hay) ==
    \E i \in 0..(Len(hay) - Len(needle)) :
        SubSeq(hay, i + 1, i + Len(needle)) = needle

\* img_response.status_code == 200 and "image" in Content-Type
Accepted(r) ==
    /\ r.status = StatusOK
    /\ Contains(<<"i", "m", "a", "g", "e">>, r.ctype)

(***************************************************************************)
(* The uploads directory and the returned URL (lines 100-109, 119-124)     *)
(***************************************************************************)
\* variant: the file name leaves the identifier out
Filename_NoId(u) == <<"ai_gen_", ".png">>

\* f"ai_gen_{uuid.uuid4()}.png"
Filename(u) == <<"ai_gen_", u, ".png">>

\* the names a stored image can get
Filenames == {Filename(u) : u \in 1..MaxUuid}

\* variant: the uploads path segment is left out
ImageUrl_NoDir(filename) == <<"http://localhost:8000/">> \o filename

\* f"http://localhost:8000/uploads/{filename}"
ImageUrl(filename) == <<"http://localhost:8000/uploads/">> \o filename

\* outcomes of os.makedirs + open + write: all succeed, makedirs or open
\* raises (no file), or write raises after open created the file
FsOutcomes == {"ok", "no_file", "partial"}

Partial == -1    \* content of a file whose write did not complete
NoFile == 0      \* no file of that name

VARIABLES
    pc,          \* per invocation: "unused", "idle", "text", "primary",
                 \* "retry", "returned", "raised"
    blocked,     \* invocation holding the thread inside requests.get, or 0
    apiKey,      \* POLLINATIONS_API_KEY
    textCalls,   \* per invocation: calls of chain.ainvoke
    textOut,     \* per invocation: what chain.ainvoke returned
    textErr,     \* per invocation: the exception chain.ainvoke raised
    result,      \* per invocation: the dict `result` / the returned value
    raised,      \* per invocation: the exception raised to the caller
    draws,       \* per invocation: the seeds random.randint returned
    reqs,        \* per invocation: URLs given to requests.get, in order
    resps,       \* per invocation: what each requests.get produced
    stores,      \* per invocation: the file stores it began (line 100 on)
    files        \* the uploads directory: file name -> content

pipeVars == <<pc, blocked, apiKey, textCalls, textOut, textErr, result,
              raised, draws, reqs, resps, stores, files>>

vars == <<cleanVars, pipeVars>>

\* the state before any call; the invocations in `calls` will be made
PipeStart(calls) ==
    /\ pc = [p \in Procs |-> IF p \in calls THEN "idle" ELSE "unused"]
    /\ blocked = 0
    /\ apiKey \in ApiKeys
    /\ textCalls = [p \in Procs |-> 0]
    /\ textOut = [p \in Procs |-> NoValue]
    /\ textErr = [p \in Procs |-> "none"]
    /\ result = [p \in Procs |-> NoValue]
    /\ raised = [p \in Procs |-> "none"]
    /\ draws = [p \in Procs |-> <<>>]
    /\ reqs = [p \in Procs |-> <<>>]
    /\ resps = [p \in Procs |-> <<>>]
    /\ stores = [p \in Procs |-> <<>>]
    /\ files = [n \in Filenames |-> NoFile]

(***************************************************************************)
(* generate_event_content (lines 40-140)                                   *)
(***************************************************************************)
\* a transport error raised by requests.get, as an entry of resps
TransportError == [status |-> -1, ctype |-> <<>>, content |-> ErrorPage]

\* variant: only the shape of the document is looked at
PostProcessRaises_DictOnly(out) == out.top # "dict"

\* lines 67-68 raise: `result` is not a dict (the item assignment of line
\* 134 or the subscript of line 68 / 79 raises TypeError), or re.sub is
\* given a description that is not a string
PostProcessRaises(out) ==
    \/ out.top # "dict"
    \/ out.description.k \notin {"absent", "str"}

\* variant: the prompt sent to the image backend is written back into the
\* result
PostProcess_KeepsEnhanced(out) ==
    IF out.description.k = "str"
    THEN [out EXCEPT !.description = JStr(_clean_description(@.s)),
                     !.image_prompt = IF @.k = "str"
                                      THEN JStr(EnhancedPrompt(@.s))
                                      ELSE @]
    ELSE out

\* lines 67-68: description replaced by its cleaned form when present
PostProcess(out) ==
    IF out.description.k = "str"
    THEN [out EXCEPT !.description = JStr(_clean_description(@.s))]
    ELSE out

\* line 79 raises: image_prompt is present and is not a string
TruncateRaises(out) == out.image_prompt.k \notin {"absent", "str"}

\* variant: chain.ainvoke is called a second time before its result is
\* awaited
Call_Twice(p) ==
    /\ pc[p] = "idle"
    /\ blocked = 0
    /\ pc' = [pc EXCEPT ![p] = "text"]
    /\ textCalls' = [textCalls EXCEPT ![p] = @ + 2]
    /\ UNCHANGED <<blocked, apiKey, textOut, textErr, result, raised, draws,
                   reqs, resps, stores, files>>

\* the caller calls generate_event_content: the prompt is built and
\* chain.ainvoke is awaited (lines 45-64)
Call(p) ==
    /\ pc[p] = "idle"
    /\ blocked = 0
    /\ pc' = [pc EXCEPT ![p] = "text"]
    /\ textCalls' = [textCalls EXCEPT ![p] = @ + 1]
    /\ UNCHANGED <<blocked, apiKey, textOut, textErr, result, raised, draws,
                   reqs, resps, stores, files>>

\* variant: the handler raises a new error in place of e
TextRaise_Wrapped(p, e) ==
    /\ pc[p] = "text"
    /\ blocked = 0
    /\ pc' = [pc EXCEPT ![p] = "raised"]
    /\ textErr' = [textErr EXCEPT ![p] = e]
    /\ raised' = [raised EXCEPT ![p] = "GenerationFailure"]
    /\ UNCHANGED <<blocked, apiKey, textCalls, textOut, result, draws, reqs,
                   resps, stores, files>>

\* chain.ainvoke raises e: logged and re-raised (lines 138-140)
TextRaise(p, e) ==
    /\ pc[p] = "text"
    /\ blocked = 0
    /\ pc' = [pc EXCEPT ![p] = "raised"]
    /\ textErr' = [textErr EXCEPT ![p] = e]
    /\ raised' = [raised EXCEPT ![p] = e]
    /\ UNCHANGED <<blocked, apiKey, textCalls, textOut, result, draws, reqs,
                   resps, stores, files>>

\* variant: without an image_prompt the image is requested all the same,
\* for the bare style suffix
TextReturn_DefaultPrompt(p, out, seed) ==
    /\ pc[p] = "text"
    /\ blocked = 0
    /\ textOut' = [textOut EXCEPT ![p] = out]
    /\ IF PostProcessRaises(out)
       THEN /\ pc' = [pc EXCEPT ![p] = "raised"]
            /\ raised' = [raised EXCEPT ![p] = "TypeError"]
            /\ UNCHANGED <<blocked, result, draws, reqs>>
       ELSE IF out.image_prompt.k = "absent"
       THEN /\ draws' = [draws EXCEPT ![p] = Append(@, seed)]
            /\ pc' = [pc EXCEPT ![p] = "primary"]
            /\ blocked' = p
            /\ result' = [result EXCEPT ![p] = PostProcess(out)]
            /\ reqs' = [reqs EXCEPT ![p] = <<PollinationsUrl(
                   Quote(EnhancedPrompt(<<>>)), seed, apiKey)>>]
            /\ UNCHANGED raised
       ELSE /\ draws' = [draws EXCEPT ![p] = Append(@, seed)]
            /\ IF TruncateRaises(out)
               THEN /\ pc' = [pc EXCEPT ![p] = "raised"]
                    /\ raised' = [raised EXCEPT ![p] = "TypeError"]
                    /\ UNCHANGED <<blocked, result, reqs>>
               ELSE IF QuoteRaises(EnhancedPrompt(out.image_prompt.s))
               THEN /\ pc' = [pc EXCEPT ![p] = "raised"]
                    /\ raised' = [raised EXCEPT ![p] = "UnicodeEncodeError"]
                    /\ UNCHANGED <<blocked, result, reqs>>
               ELSE /\ pc' = [pc EXCEPT ![p] = "primary"]
                    /\ blocked' = p
                    /\ result' = [result EXCEPT ![p] = PostProcess(out)]
                    /\ reqs' = [reqs EXCEPT ![p] = <<PollinationsUrl(
                           Quote(EnhancedPrompt(out.image_prompt.s)),
                           seed, apiKey)>>]
                    /\ UNCHANGED raised
    /\ UNCHANGED <<apiKey, textCalls, textErr, resps, stores, files>>

\* chain.ainvoke returns out: post-processing, then either the return of
\* line 136 with an empty imageUrl, an exception of lines 67-88 re-raised
\* at line 140, or the primary request of line 97; the seed is drawn at
\* line 77, once image_prompt has been found present
TextReturn(p, out, seed) ==
    /\ pc[p] = "text"
    /\ blocked = 0
    /\ textOut' = [textOut EXCEPT ![p] = out]
    /\ IF PostProcessRaises(out)
       THEN /\ pc' = [pc EXCEPT ![p] = "raised"]
            /\ raised' = [raised EXCEPT ![p] = "TypeError"]
            /\ UNCHANGED <<blocked, result, draws, reqs>>
       ELSE IF out.image_prompt.k = "absent"
       THEN /\ pc' = [pc EXCEPT ![p] = "returned"]
            /\ result' = [result EXCEPT ![p] =
                   [PostProcess(out) EXCEPT !.imageUrl = JStr(<<>>)]]
            /\ UNCHANGED <<blocked, raised, draws, reqs>>
       ELSE /\ draws' = [draws EXCEPT ![p] = Append(@, seed)]
            /\ IF TruncateRaises(out)
               THEN /\ pc' = [pc EXCEPT ![p] = "raised"]
                    /\ raised' = [raised EXCEPT ![p] = "TypeError"]
                    /\ UNCHANGED <<blocked, result, reqs>>
               ELSE IF QuoteRaises(EnhancedPrompt(out.image_prompt.s))
               THEN /\ pc' = [pc EXCEPT ![p] = "raised"]
                    /\ raised' = [raised EXCEPT ![p] = "UnicodeEncodeError"]
                    /\ UNCHANGED <<blocked, result, reqs>>
               ELSE /\ pc' = [pc EXCEPT ![p] = "primary"]
                    /\ blocked' = p
                    /\ result' = [result EXCEPT ![p] = PostProcess(out)]
                    /\ reqs' = [reqs EXCEPT ![p] = <<PollinationsUrl(
                           Quote(EnhancedPrompt(out.image_prompt.s)),
                           seed, apiKey)>>]
                    /\ UNCHANGED raised
    /\ UNCHANGED <<apiKey, textCalls, textErr, resps, stores, files>>

\* the values uuid.uuid4() has returned so far (line 100 / 119 runs before
\* makedirs, so a store that failed has used one too)
IssuedUuids ==
    {u \in 1..MaxUuid :
        \E q \in Procs : \E i \in 1..Len(stores[q]) :
            stores[q][i].uuid = u}

\* variant: imageUrl is assigned before the file is written, and stays
\* when the write fails
StoreAndReturn_UrlFirst(p, r, fs, u) ==
    /\ u \notin IssuedUuids
    /\ files' = CASE fs = "ok" -> [files EXCEPT ![Filename(u)] = r.content]
                  [] fs = "partial" -> [files EXCEPT ![Filename(u)] = Partial]
                  [] fs = "no_file" -> files
    /\ stores' = [stores EXCEPT ![p] =
                      Append(@, [uuid |-> u, name |-> Filename(u), fs |-> fs,
                                 content |-> r.content])]
    /\ result' = [result EXCEPT ![p].imageUrl = JStr(ImageUrl(Filename(u)))]
    /\ pc' = [pc EXCEPT ![p] = "returned"]
    /\ blocked' = 0

\* lines 100-110 / 119-125 followed by the return of line 136; an exception
\* of makedirs, open or write is caught at line 130. The entry of stores
\* records the name chosen, how the file system answered, and the bytes
\* handed to f.write. uuid4 returns an identifier it has not returned
\* before
StoreAndReturn(p, r, fs, u) ==
    /\ u \notin IssuedUuids
    /\ files' = CASE fs = "ok" -> [files EXCEPT ![Filename(u)] = r.content]
                  [] fs = "partial" -> [files EXCEPT ![Filename(u)] = Partial]
                  [] fs = "no_file" -> files
    /\ stores' = [stores EXCEPT ![p] =
                      Append(@, [uuid |-> u, name |-> Filename(u), fs |-> fs,
                                 content |-> r.content])]
    /\ result' = [result EXCEPT ![p].imageUrl =
                     IF fs = "ok" THEN JStr(ImageUrl(Filename(u)))
                     ELSE JStr(<<>>)]
    /\ pc' = [pc EXCEPT ![p] = "returned"]
    /\ blocked' = 0

\* variant: the degradation paths return without assigning imageUrl
DegradeAndReturn_NoUrl(p) ==
    /\ pc' = [pc EXCEPT ![p] = "returned"]
    /\ blocked' = 0
    /\ UNCHANGED <<result, stores, files>>

\* imageUrl = "" (lines 127, 129, 132) followed by the return of line 136
DegradeAndReturn(p) ==
    /\ result' = [result EXCEPT ![p].imageUrl = JStr(<<>>)]
    /\ pc' = [pc EXCEPT ![p] = "returned"]
    /\ blocked' = 0
    /\ UNCHANGED <<stores, files>>

\* variant: after a rejected answer the request is sent again with the
\* other model, until an answer is accepted
PrimaryReturn_UntilAccepted(p, r, fs, u) ==
    /\ pc[p] = "primary"
    /\ IF Accepted(r)
       THEN /\ resps' = [resps EXCEPT ![p] = Append(@, r)]
            /\ StoreAndReturn(p, r, fs, u)
            /\ UNCHANGED reqs
       ELSE /\ reqs' = [reqs EXCEPT ![p] =
                   <<[@[1] EXCEPT !.model =
                         IF @ = "flux" THEN "turbo" ELSE "flux"]>>]
            /\ UNCHANGED <<pc, blocked, result, resps, stores, files>>
    /\ UNCHANGED <<apiKey, textCalls, textOut, textErr, raised, draws>>

\* the primary requests.get returns r (lines 97-129)
PrimaryReturn(p, r, fs, u) ==
    /\ pc[p] = "primary"
    /\ resps' = [resps EXCEPT ![p] = Append(@, r)]
    /\ IF Accepted(r)
       THEN /\ StoreAndReturn(p, r, fs, u)
            /\ UNCHANGED reqs
       ELSE IF HasFluxModel(reqs[p][1])
       THEN /\ reqs' = [reqs EXCEPT ![p] = Append(@, RetryUrl(@[1]))]
            /\ pc' = [pc EXCEPT ![p] = "retry"]
            /\ UNCHANGED <<blocked, result, stores, files>>
       ELSE /\ DegradeAndReturn(p)
            /\ UNCHANGED reqs
    /\ UNCHANGED <<apiKey, textCalls, textOut, textErr, raised, draws>>

\* variant: after a transport error the fallback is sent and the call
\* returns without waiting for its answer
PrimaryRaise_NotAwaited(p) ==
    /\ pc[p] = "primary"
    /\ resps' = [resps EXCEPT ![p] = Append(@, TransportError)]
    /\ reqs' = [reqs EXCEPT ![p] = Append(@, RetryUrl(@[1]))]
    /\ DegradeAndReturn(p)
    /\ UNCHANGED <<apiKey, textCalls, textOut, textErr, raised, draws>>

\* the primary requests.get raises (timeout, connection error): line 130
PrimaryRaise(p) ==
    /\ pc[p] = "primary"
    /\ resps' = [resps EXCEPT ![p] = Append(@, TransportError)]
    /\ DegradeAndReturn(p)
    /\ UNCHANGED <<apiKey, textCalls, textOut, textErr, raised, draws,
                   reqs>>

\* variant: the retry's response is never stored
RetryReturn_NoStore(p, r, fs, u) ==
    /\ pc[p] = "retry"
    /\ resps' = [resps EXCEPT ![p] = Append(@, r)]
    /\ DegradeAndReturn(p)
    /\ UNCHANGED <<apiKey, textCalls, textOut, textErr, raised, draws,
                   reqs>>

\* the retry requests.get returns r (lines 117-127)
RetryReturn(p, r, fs, u) ==
    /\ pc[p] = "retry"
    /\ resps' = [resps EXCEPT ![p] = Append(@, r)]
    /\ IF Accepted(r)
       THEN StoreAndReturn(p, r, fs, u)
       ELSE DegradeAndReturn(p)
    /\ UNCHANGED <<apiKey, textCalls, textOut, textErr, raised, draws,
                   reqs>>

\* variant: the retry is outside the try block and its error propagates
RetryRaise_Propagates(p) ==
    /\ pc[p] = "retry"
    /\ resps' = [resps EXCEPT ![p] = Append(@, TransportError)]
    /\ pc' = [pc EXCEPT ![p] = "raised"]
    /\ raised' = [raised EXCEPT ![p] = "TransportError"]
    /\ blocked' = 0
    /\ UNCHANGED <<apiKey, textCalls, textOut, textErr, result, draws, reqs,
                   stores, files>>

\* the retry requests.get raises: line 130
RetryRaise(p) ==
    /\ pc[p] = "retry"
    /\ resps' = [resps EXCEPT ![p] = Append(@, TransportError)]
    /\ DegradeAndReturn(p)
    /\ UNCHANGED <<apiKey, textCalls, textOut, textErr, raised, draws,
                   reqs>>

\* one invocation of generate_event_content
Init == CleanIdle /\ PipeStart({1})

Next ==
    \/ \E p \in Procs : Call(p) /\ UNCHANGED cleanVars
    \/ \E p \in Procs, e \in TextErrors :
           TextRaise(p, e) /\ UNCHANGED cleanVars
    \/ \E p \in Procs, out \in TextOutputs, seed \in 1..MaxSeed :
           TextReturn(p, out, seed) /\ UNCHANGED cleanVars
    \/ \E p \in Procs, r \in Responses, fs \in FsOutcomes, u \in 1..MaxUuid :
           PrimaryReturn(p, r, fs, u) /\ UNCHANGED cleanVars
    \/ \E p \in Procs : PrimaryRaise(p) /\ UNCHANGED cleanVars
    \/ \E p \in Procs, r \in Responses, fs \in FsOutcomes, u \in 1..MaxUuid :
           RetryReturn(p, r, fs, u) /\ UNCHANGED cleanVars
    \/ \E p \in Procs : RetryRaise(p) /\ UNCHANGED cleanVars

Spec == Init /\ [][Next]_vars

\* requests.get(..., timeout=30) of invocation p comes back: it returns a
\* response or raises (lines 97, 117)
ImageAnswer(p) ==
    \/ \E r \in Responses, fs \in FsOutcomes, u \in 1..MaxUuid :
           PrimaryReturn(p, r, fs, u) /\ UNCHANGED cleanVars
    \/ PrimaryRaise(p) /\ UNCHANGED cleanVars
    \/ \E r \in Responses, fs \in FsOutcomes, u \in 1..MaxUuid :
           RetryReturn(p, r, fs, u) /\ UNCHANGED cleanVars
    \/ RetryRaise(p) /\ UNCHANGED cleanVars

\* one invocation whose downloads do not wait for ever: the timeout of 30 s
\* makes a requests.get that got no answer raise
SpecFair == Spec /\ \A p \in Procs : WF_vars(ImageAnswer(p))

\* two invocations in flight on the same event loop
InitConc == CleanIdle /\ PipeStart(Procs)

\* the steps of the two invocations, interleaved; random.randint returns
\* the same seed to both, so that they send identical requests
NextConc ==
    \/ \E p \in Procs : Call(p) /\ UNCHANGED cleanVars
    \/ \E p \in Procs, e \in TextErrors :
           TextRaise(p, e) /\ UNCHANGED cleanVars
    \/ \E p \in Procs, out \in TextOutputs :
           TextReturn(p, out, 1) /\ UNCHANGED cleanVars
    \/ \E p \in Procs, r \in Responses, fs \in FsOutcomes, u \in 1..MaxUuid :
           PrimaryReturn(p, r, fs, u) /\ UNCHANGED cleanVars
    \/ \E p \in Procs : PrimaryRaise(p) /\ UNCHANGED cleanVars
    \/ \E p \in Procs, r \in Responses, fs \in FsOutcomes, u \in 1..MaxUuid :
           RetryReturn(p, r, fs, u) /\ UNCHANGED cleanVars
    \/ \E p \in Procs : RetryRaise(p) /\ UNCHANGED cleanVars

SpecConc == InitConc /\ [][NextConc]_vars

(***************************************************************************)
(* Properties of generate_event_content                                    *)
(***************************************************************************)
Returned(p) == pc[p] = "returned"

\* the value of a returned imageUrl that names the stored file u
UploadsUrl(u) == <<"http://localhost:8000/uploads/", "ai_gen_", u, ".png">>

\* the n-th download of p was answered, and the answer passed the test
AnswerAccepted(p, n) ==
    /\ Len(resps[p]) >= n
    /\ resps[p][n] \in Responses
    /\ resps[p][n].status = 200
    /\ resps[p][n].ctype = ImagePng

\* the n-th download of p was answered with a bad status or a content type
\* that is not an image
AnswerRejected(p, n) ==
    /\ Len(resps[p]) >= n
    /\ resps[p][n] \in Responses
    /\ (resps[p][n].status # 200 \/ resps[p][n].ctype # ImagePng)

\* the n-th download of p raised a transport error
AnswerRaised(p, n) ==
    /\ Len(resps[p]) >= n
    /\ resps[p][n] = TransportError

\* C1: every returned result carries an imageUrl field that holds a string
\* (possibly empty), whichever path led to the return
C1_ImageUrlAlwaysSet ==
    \A p \in Procs :
        Returned(p) => /\ result[p].top = "dict"
                       /\ result[p].imageUrl.k = "str"

\* a return after the retry raised a transport error
C1_Witness ==
    \E p \in Procs :
        /\ Returned(p) /\ AnswerRaised(p, 2)
        /\ result[p].imageUrl = JStr(<<>>)

\* C2: when the text step raises, the call fails with that same error, no
\* result exists, no image request was issued and no file store was begun
C2_TextErrorPropagates ==
    \A p \in Procs :
        textErr[p] # "none" =>
            /\ pc[p] = "raised"
            /\ raised[p] = textErr[p]
            /\ result[p] = NoValue
            /\ reqs[p] = <<>>
            /\ stores[p] = <<>>

C2_Witness ==
    \E p \in Procs : textErr[p] = "TransportError" /\ pc[p] = "raised"

C4_Original ==
    \A p \in Procs :
        Returned(p) /\ AnswerAccepted(p, 1) =>
            /\ Len(stores[p]) = 1
            /\ stores[p][1].fs = "ok"
            /\ \E u \in 1..MaxUuid :
                   result[p].imageUrl = JStr(UploadsUrl(u))

\* C4 amended: after such a primary answer exactly one store is begun with
\* the bytes of that answer and no retry is issued; when makedirs, open and
\* write raise nothing the imageUrl is the uploads URL of the stored file,
\* and when one of them raises the imageUrl is empty
C4_PrimaryStored ==
    \A p \in Procs :
        Returned(p) /\ AnswerAccepted(p, 1) =>
            /\ Len(reqs[p]) = 1
            /\ Len(stores[p]) = 1
            /\ stores[p][1].content = resps[p][1].content
            /\ \E u \in 1..MaxUuid :
                   /\ stores[p][1].name = <<"ai_gen_", u, ".png">>
                   /\ result[p].imageUrl =
                          IF stores[p][1].fs = "ok"
                          THEN JStr(UploadsUrl(u)) ELSE JStr(<<>>)

C4_Witness ==
    \E p \in Procs :
        /\ Returned(p) /\ AnswerAccepted(p, 1)
        /\ stores[p][1].fs = "ok"
        /\ result[p].imageUrl.s # <<>>

C6_Original ==
    \A p \in Procs :
        Returned(p) /\ AnswerRejected(p, 1) /\ AnswerAccepted(p, 2) =>
            /\ Len(stores[p]) = 1
            /\ stores[p][1].fs = "ok"
            /\ stores[p][1].content = resps[p][2].content
            /\ \E u \in 1..MaxUuid :
                   /\ stores[p][1].name = <<"ai_gen_", u, ".png">>
                   /\ result[p].imageUrl = JStr(UploadsUrl(u))

\* C6 amended: primary rejected and retry accepted begin exactly one store,
\* with the bytes of the retry's answer; when makedirs, open and write
\* raise nothing the imageUrl is the uploads URL of that file, and when one
\* of them raises the imageUrl is empty
C6_RetryStored ==
    \A p \in Procs :
        Returned(p) /\ AnswerRejected(p, 1) /\ AnswerAccepted(p, 2) =>
            /\ Len(stores[p]) = 1
            /\ stores[p][1].content = resps[p][2].content
            /\ \E u \in 1..MaxUuid :
                   /\ stores[p][1].name = <<"ai_gen_", u, ".png">>
                   /\ result[p].imageUrl =
                          IF stores[p][1].fs = "ok"
                          THEN JStr(UploadsUrl(u)) ELSE JStr(<<>>)

\* the two answers carry different bytes and the store succeeded
C6_Witness ==
    \E p \in Procs :
        /\ Returned(p) /\ AnswerRejected(p, 1) /\ AnswerAccepted(p, 2)
        /\ resps[p][1].content # resps[p][2].content
        /\ stores[p][1].fs = "ok"
        /\ result[p].imageUrl.s # <<>>

\* C7: when the primary and the retry both fail, the call returns a result
\* with an empty imageUrl, raises nothing, and began no file store
C7_BothFailDegrades ==
    \A p \in Procs :
        /\ AnswerRejected(p, 1)
        /\ (AnswerRejected(p, 2) \/ AnswerRaised(p, 2))
        => /\ Returned(p)
           /\ raised[p] = "none"
           /\ result[p].imageUrl = JStr(<<>>)
           /\ stores[p] = <<>>
           /\ \A n \in Filenames :
                  files[n] # NoFile => \E q \in Procs \ {p} : stores[q] # <<>>

\* the primary answered with a bad status and the retry with a content
\* type that is not an image
C7_Witness ==
    \E p \in Procs :
        /\ AnswerRejected(p, 1) /\ resps[p][1].status = 500
        /\ AnswerRejected(p, 2) /\ resps[p][2].ctype = TextHtml
        /\ Returned(p)

\* C8: once the text step has returned, nothing that happens in the image
\* step (truncation, encoding, URL building, downloads, store) makes the
\* call raise; stated for text output that conforms to the schema, where
\* the post-processing of the description cannot raise either
C8_ImageStepNeverRaises ==
    \A p \in Procs :
        EventContentConforms(textOut[p]) => pc[p] # "raised"

\* C11: the steps of one invocation run in order: an image request is sent
\* only after the text step returned its output, the fallback request only
\* after the primary request was answered, and the call returns only when
\* every request it sent has been answered or has raised
C11_StepsInOrder ==
    \A p \in Procs :
        /\ reqs[p] # <<>> => /\ textOut[p].top = "dict"
                             /\ textErr[p] = "none"
                             /\ textCalls[p] = 1
        /\ pc[p] = "primary" => Len(reqs[p]) = 1 /\ Len(resps[p]) = 0
        /\ pc[p] = "retry" => Len(reqs[p]) = 2 /\ Len(resps[p]) = 1
        /\ Len(reqs[p]) = 2 => Len(resps[p]) >= 1
        /\ pc[p] \in {"returned", "raised"} => Len(resps[p]) = Len(reqs[p])

\* a call that returned after both downloads were sent and answered
C11_Witness ==
    \E p \in Procs :
        Returned(p) /\ Len(reqs[p]) = 2 /\ Len(resps[p]) = 2

\* C12: the text backend is called exactly once per invocation; at most
\* two image requests are sent, the first with model flux, the second with
\* model turbo and only after the first was answered and rejected; an
\* accepted first answer is followed by no second request
C12_CallsBounded ==
    \A p \in Procs :
        /\ pc[p] \notin {"unused", "idle"} => textCalls[p] = 1
        /\ pc[p] \in {"unused", "idle"} => textCalls[p] = 0
        /\ Len(reqs[p]) <= 2
        /\ Len(reqs[p]) >= 1 => reqs[p][1].model = "flux"
        /\ Len(reqs[p]) = 2 => /\ reqs[p][2].model = "turbo"
                               /\ AnswerRejected(p, 1)
        /\ AnswerAccepted(p, 1) => Len(reqs[p]) = 1

\* a call that sent the fallback request after a rejected primary answer,
\* having called the text backend once
C12_Witness ==
    \E p \in Procs :
        /\ Returned(p)
        /\ textCalls[p] = 1
        /\ Len(reqs[p]) = 2
        /\ AnswerRejected(p, 1)

\* the steps of invocation q that wait for no image download: being
\* called, and resuming from the await of the text backend
Progress(q) ==
    \/ Call(q)
    \/ \E e \in TextErrors : TextRaise(q, e)
    \/ \E out \in TextOutputs, seed \in 1..MaxSeed : TextReturn(q, out, seed)

\* C13: an image download is a suspension point: while one invocation
\* waits for its primary or fallback download, every other invocation on
\* the same event loop that is ready to start, or whose text backend can
\* answer, is able to take its next step
C13_FetchSuspends ==
    \A p \in Procs, q \in Procs :
        /\ p # q
        /\ pc[p] \in {"primary", "retry"}
        /\ pc[q] \in {"idle", "text"}
        => ENABLED (Progress(q) /\ UNCHANGED cleanVars)

\* C14 as stated: a seed is drawn for each image attempt, so an invocation
\* that sent the fallback request drew two seeds and the fallback request
\* carries the second
C14_Original ==
    \A p \in Procs :
        Len(reqs[p]) = 2 => /\ Len(draws[p]) = 2
                           /\ reqs[p][2].seed = draws[p][2]

\* C14: one seed is drawn per invocation, before the primary request is
\* built, and every image request of the invocation carries it: the
\* fallback request has the seed of the primary request
C14_SeedPerInvocation ==
    \A p \in Procs :
        /\ Len(draws[p]) <= 1
        /\ \A i \in 1..Len(reqs[p]) :
               Len(draws[p]) = 1 /\ reqs[p][i].seed = draws[p][1]

\* a fallback request was sent with the seed MaxSeed of the primary request
C14_Witness ==
    \E p \in Procs :
        /\ Len(reqs[p]) = 2
        /\ draws[p] = <<MaxSeed>>
        /\ reqs[p][1].seed = MaxSeed
        /\ reqs[p][2].seed = MaxSeed
        /\ reqs[p][2].model = "turbo"

\* C15: no two file stores, of the same or of different invocations, run
\* one after the other or interleaved, target the same file name, and so
\* every file holds what the one store that targeted it wrote: the whole
\* image of that store, or the incomplete write of that store
C15_DistinctFilenames ==
    \A p \in Procs, q \in Procs :
        \A i \in 1..Len(stores[p]), j \in 1..Len(stores[q]) :
            /\ (p # q \/ i # j) => stores[p][i].name # stores[q][j].name
            /\ stores[p][i].fs = "ok" =>
                   files[stores[p][i].name] = stores[p][i].content
            /\ stores[p][i].fs = "partial" =>
                   files[stores[p][i].name] = Partial

\* two invocations with the same text output, the same seed and the same
\* accepted image both stored it, under two names
C15_Witness ==
    \E p \in Procs, q \in Procs :
        /\ p # q
        /\ Returned(p) /\ Returned(q)
        /\ textOut[p] = textOut[q]
        /\ reqs[p] = reqs[q]
        /\ resps[p] = resps[q]
        /\ Len(stores[p]) = 1 /\ stores[p][1].fs = "ok"
        /\ Len(stores[q]) = 1 /\ stores[q][1].fs = "ok"
        /\ stores[p][1].name # stores[q][1].name
        /\ files[stores[p][1].name] = files[stores[q][1].name]

C17_OnlyTwoFieldsChange ==
    \A p \in Procs :
        Returned(p) =>
            /\ result[p].top = "dict"
            /\ result[p].agenda = textOut[p].agenda
            /\ result[p].tags = textOut[p].tags
            /\ result[p].image_prompt = textOut[p].image_prompt
            /\ result[p].description =
                   IF textOut[p].description.k = "str"
                   THEN JStr(_clean_description(textOut[p].description.s))
                   ELSE textOut[p].description
            /\ result[p].imageUrl.k = "str"

\* a call that used the fallback and returned: its description was
\* changed by the cleaning and its agenda has an item
C17_Witness ==
    \E p \in Procs :
        /\ Returned(p)
        /\ Len(resps[p]) = 2
        /\ result[p].description # textOut[p].description
        /\ result[p].agenda.s # <<>>
        /\ result[p].image_prompt.k = "str"

C19_UrlNamesWrittenFile ==
    \A p \in Procs :
        /\ Len(stores[p]) <= 1
        /\ pc[p] \in {"primary", "retry"} =>
               /\ stores[p] = <<>>
               /\ result[p].imageUrl = textOut[p].imageUrl
        /\ (Returned(p) /\ result[p].imageUrl # JStr(<<>>)) =>
               /\ Len(stores[p]) = 1
               /\ stores[p][1].fs = "ok"
               /\ \E u \in 1..MaxUuid :
                      /\ result[p].imageUrl = JStr(UploadsUrl(u))
                      /\ stores[p][1].name = <<"ai_gen_", u, ".png">>
               /\ AnswerAccepted(p, Len(resps[p]))
               /\ stores[p][1].content = resps[p][Len(resps[p])].content
               /\ files[stores[p][1].name] = resps[p][Len(resps[p])].content

\* a call that returned the URL of the fallback image, the file holding
\* the body MaxBytes of the fallback response
C19_Witness ==
    \E p \in Procs :
        /\ Returned(p)
        /\ result[p].imageUrl # JStr(<<>>)
        /\ AnswerRejected(p, 1)
        /\ AnswerAccepted(p, 2)
        /\ resps[p][2].content = MaxBytes
        /\ files[stores[p][1].name] = MaxBytes

(***************************************************************************)
(* _clean_description on every text up to MaxTextLen                       *)
(***************************************************************************)
InitClean == CleanStart /\ PipeStart({})

NextClean ==
    \/ CleanCall /\ UNCHANGED pipeVars
    \/ CleanAgain /\ UNCHANGED pipeVars

SpecClean == InitClean /\ [][NextClean]_vars

\* C9: the description post-processor is idempotent: cleaning the cleaned
\* text gives the cleaned text again
C9_Idempotent == cleanPc = "twice" => cleanTwice = cleanOnce

\* C10: the cleaned text has no line that begins with one or more '#'
\* followed by whitespace, and no leading or trailing whitespace
C10_NoHeaderNoPadding ==
    cleanPc \in {"once", "twice"} =>
        /\ \A k \in 1..Len(Lines(cleanOnce)) :
               ~IsHeaderLine(Lines(cleanOnce)[k])
        /\ cleanOnce # <<>> =>
               /\ cleanOnce[1] \notin Whitespace
               /\ cleanOnce[Len(cleanOnce)] \notin Whitespace

\* a sequence is a subsequence of another: its elements occur there in
\* the same order
RECURSIVE IsSubSeq(_, _)
IsSubSeq(a, b) ==
    IF a = <<>> THEN TRUE
    ELSE IF b = <<>> THEN FALSE
    ELSE IF Head(a) = Head(b) THEN IsSubSeq(Tail(a), Tail(b))
    ELSE IsSubSeq(a, Tail(b))

\* the lines of a text, each trimmed
TrimmedLines(t) == [k \in 1..Len(Lines(t)) |-> Strip(Lines(t)[k])]

\* a trimmed line with content that is neither a header nor made of '#'
\* characters only
IsContentLine(l) ==
    /\ ~IsHeaderLine(l)
    /\ \E k \in 1..Len(l) : l[k] # "#"

\* the content lines of a text, trimmed, in their order
ContentLines(t) ==
    LET IsContent(l) == IsContentLine(l)
    IN  SelectSeq(TrimmedLines(t), IsContent)

\* C20: _clean_description deletes headers only: every line of the input
\* that has content and does not begin with '#'s followed by whitespace,
\* the line after a line of '#'s included, is a line of the output (up to
\* surrounding whitespace), and these lines keep their order
C20_ContentLinesKept ==
    cleanPc \in {"once", "twice"} =>
        IsSubSeq(ContentLines(cleanIn), TrimmedLines(cleanOnce))

====
